---- MODULE Spec2Model ----
(***************************************************************************)
(* Model of src/src/main.rs: the RGB<->HSV converter, the five image       *)
(* transforms (linear contrast, manual threshold, Otsu threshold,          *)
(* inversion, brightness) and the state that ImageApp::update keeps.       *)
(*                                                                         *)
(* f32 and f64 values are modelled bit for bit: a finite binary float is   *)
(* a record [s, m, e] of value (-1)^s * m * 2^e whose mantissa m has       *)
(* exactly F32Prec (or F64Prec) bits, or is 0, and every operation rounds  *)
(* its exact result to nearest, ties to even, as IEEE 754 does.  No value  *)
(* of the program comes near the overflow or the subnormal range, so the   *)
(* exponent is unbounded; zero is unsigned (the program never takes the    *)
(* sign of a zero); no NaN or infinity occurs.                             *)
(*                                                                         *)
(* A function of the program whose locals depend on one another is a       *)
(* chain of operators, each taking the locals computed so far as its       *)
(* parameters and computing the next ones, so that a local is evaluated    *)
(* once wherever it is used.                                               *)
(*                                                                         *)
(* Three specifications: Spec is ImageApp, frame by frame; SpecCall is     *)
(* one call of a transform on a sampled image; SpecConv is one colour      *)
(* taken to HSV and back.                                                  *)
(***************************************************************************)
EXTENDS Integers, Sequences, FiniteSets, TLC

None == <<>>
Some(x) == <<x>>

VARIABLES
    \* ImageApp
    original_image, processed_image, original_texture, processed_texture,
    manual_threshold_value, manual_brightness_value,
    \* one call of a transform: its argument, what was called and what it returned
    image, called, threshold, value, result, panicked, otsu,
    \* one colour through the converter
    rgb_in, hsv, rgb_out, conv_pc

appVars == <<original_image, processed_image, original_texture, processed_texture,
             manual_threshold_value, manual_brightness_value>>
callVars == <<image, called, threshold, value, result, panicked, otsu>>
convVars == <<rgb_in, hsv, rgb_out, conv_pc>>
vars == <<appVars, callVars, convVars>>

F32Prec == 24
F64Prec == 53

(***************************************************************************)
(* Natural numbers of arbitrary size (the 53-bit mantissas of f64 and      *)
(* their products): sequences of limbs below Base, the least significant   *)
(* first, no leading zero limb.                                            *)
(***************************************************************************)
Base == 2^15

Limb(a, i) == IF i <= Len(a) THEN a[i] ELSE 0

RECURSIVE BNorm(_)
BNorm(a) ==
    IF a = <<>> THEN a
    ELSE IF a[Len(a)] = 0 THEN BNorm(SubSeq(a, 1, Len(a) - 1))
    ELSE a

\* 0 <= n < 2^31
BFromInt(n) == BNorm(<<n % Base, (n \div Base) % Base, n \div (Base * Base)>>)

RECURSIVE BAddC(_, _, _, _)
BAddC(a, b, i, c) ==
    IF i > Len(a) /\ i > Len(b)
    THEN (IF c = 0 THEN <<>> ELSE <<c>>)
    ELSE LET s == Limb(a, i) + Limb(b, i) + c
         IN  <<s % Base>> \o BAddC(a, b, i + 1, s \div Base)

BAdd(a, b) == BAddC(a, b, 1, 0)

RECURSIVE BSubC(_, _, _, _)
BSubC(a, b, i, br) ==
    IF i > Len(a) THEN <<>>
    ELSE LET d == a[i] - Limb(b, i) - br
         IN  IF d < 0 THEN <<d + Base>> \o BSubC(a, b, i + 1, 1)
                      ELSE <<d>> \o BSubC(a, b, i + 1, 0)

\* a - b for a >= b
BSub(a, b) == BNorm(BSubC(a, b, 1, 0))

RECURSIVE BCmpAt(_, _, _)
BCmpAt(a, b, i) ==
    IF i = 0 THEN 0
    ELSE IF a[i] # b[i] THEN (IF a[i] < b[i] THEN -1 ELSE 1)
    ELSE BCmpAt(a, b, i - 1)

BCmp(a, b) ==
    IF Len(a) # Len(b) THEN (IF Len(a) < Len(b) THEN -1 ELSE 1)
    ELSE BCmpAt(a, b, Len(a))

RECURSIVE BMulSmallC(_, _, _, _)
BMulSmallC(a, k, i, c) ==
    IF i > Len(a) THEN (IF c = 0 THEN <<>> ELSE <<c>>)
    ELSE LET p == a[i] * k + c
         IN  <<p % Base>> \o BMulSmallC(a, k, i + 1, p \div Base)

\* a * k for 0 <= k < Base
BMulSmall(a, k) == IF k = 0 \/ a = <<>> THEN <<>> ELSE BMulSmallC(a, k, 1, 0)

RECURSIVE BMul(_, _)
BMul(a, b) ==
    IF a = <<>> \/ b = <<>> THEN <<>>
    ELSE IF Len(b) = 1 THEN BMulSmall(a, b[1])
    ELSE BAdd(BMulSmall(a, b[1]), <<0>> \o BMul(a, Tail(b)))

Zeros(n) == [i \in 1..n |-> 0]

\* a * 2^k
BShl(a, k) ==
    IF a = <<>> THEN <<>>
    ELSE Zeros(k \div 15) \o BMulSmall(a, 2^(k % 15))

\* a \div 2^k
BShr(a, k) ==
    LET q == k \div 15
        r == k % 15
    IN  BNorm([i \in 1..(Len(a) - q) |->
                 (a[i + q] \div 2^r) + (Limb(a, i + q + 1) % 2^r) * 2^(15 - r)])

\* the number of bits of n, 0 < n < 2^31
IntBitLen(n) == CHOOSE k \in 1..31 : 2^(k - 1) <= n /\ (k = 31 \/ n < 2^k)

BBitLen(a) == IF a = <<>> THEN 0 ELSE 15 * (Len(a) - 1) + IntBitLen(a[Len(a)])

\* bit i (from 0) of a
BBit(a, i) == (Limb(a, i \div 15 + 1) \div 2^(i % 15)) % 2

\* a % 2^k # 0
BLowNonZero(a, k) ==
    \/ \E j \in 1..(k \div 15) : Limb(a, j) # 0
    \/ Limb(a, k \div 15 + 1) % 2^(k % 15) # 0

(***************************************************************************)
(* f64 arithmetic, on mantissas of F64Prec bits.                           *)
(***************************************************************************)
DZero == [s |-> 0, m |-> <<>>, e |-> 0]

\* the f64 nearest to (-1)^s * M * 2^e
DRound(s, M, e) ==
    LET L == BBitLen(M) IN
    IF M = <<>> THEN DZero
    ELSE IF L <= F64Prec
    THEN [s |-> s, m |-> BShl(M, F64Prec - L), e |-> e - (F64Prec - L)]
    ELSE LET k  == L - F64Prec
             q  == BShr(M, k)
             up == BBit(M, k - 1) = 1 /\ (BLowNonZero(M, k - 1) \/ BBit(q, 0) = 1)
             q1 == IF up THEN BAdd(q, <<1>>) ELSE q
         IN  IF BBitLen(q1) > F64Prec
             THEN [s |-> s, m |-> BShr(q1, 1), e |-> e + k + 1]
             ELSE [s |-> s, m |-> q1, e |-> e + k]

\* `n as f64`, 0 <= n < 2^31
F64(n) == DRound(0, BFromInt(n), 0)

DNeg(a) == IF a.m = <<>> THEN a ELSE [a EXCEPT !.s = 1 - a.s]

\* -1, 0, 1 as |a| <, =, > |b|
DCmpMag(a, b) ==
    IF a.m = <<>> \/ b.m = <<>>
    THEN (IF a.m = b.m THEN 0 ELSE IF a.m = <<>> THEN -1 ELSE 1)
    ELSE IF a.e # b.e THEN (IF a.e < b.e THEN -1 ELSE 1)
    ELSE BCmp(a.m, b.m)

DSign(a) == IF a.m = <<>> THEN 0 ELSE IF a.s = 1 THEN -1 ELSE 1

DCmp(a, b) ==
    IF DSign(a) # DSign(b) THEN (IF DSign(a) < DSign(b) THEN -1 ELSE 1)
    ELSE DSign(a) * DCmpMag(a, b)

DGt(a, b) == DCmp(a, b) > 0

DAdd(a, b) ==
    IF a.m = <<>> THEN b
    ELSE IF b.m = <<>> THEN a
    ELSE LET e == IF a.e < b.e THEN a.e ELSE b.e
             A == BShl(a.m, a.e - e)
             B == BShl(b.m, b.e - e)
             c == BCmp(A, B)
         IN  IF a.s = b.s THEN DRound(a.s, BAdd(A, B), e)
             ELSE IF c = 0 THEN DZero
             ELSE IF c > 0 THEN DRound(a.s, BSub(A, B), e)
             ELSE DRound(b.s, BSub(B, A), e)

DSub(a, b) == DAdd(a, DNeg(b))

DMul(a, b) ==
    IF a.m = <<>> \/ b.m = <<>> THEN DZero
    ELSE DRound((a.s + b.s) % 2, BMul(a.m, b.m), a.e + b.e)

\* (n as f64) / (d as f64) for integers 0 <= n < 2^31 and 0 < d < 2^16: the
\* quotient to 75 fraction bits, fifteen at a time, and a sticky bit
DDivInt(n, d) ==
    LET r0 == n % d
        q1 == (r0 * Base) \div d
        r1 == (r0 * Base) % d
        q2 == (r1 * Base) \div d
        r2 == (r1 * Base) % d
        q3 == (r2 * Base) \div d
        r3 == (r2 * Base) % d
        q4 == (r3 * Base) \div d
        r4 == (r3 * Base) % d
        q5 == (r4 * Base) \div d
        r5 == (r4 * Base) % d
        Q  == BNorm(<<q5, q4, q3, q2, q1>> \o BFromInt(n \div d))
    IN  DRound(0, BAdd(BShl(Q, 1), IF r5 = 0 THEN <<>> ELSE <<1>>), -76)

(***************************************************************************)
(* f32 arithmetic.  A 24-bit mantissa fits the integers TLC computes       *)
(* with, so the f32 operations work on plain integers: [s, m, e] with      *)
(* 2^23 <= m < 2^24, or m = 0.  Each operation forms the exact result      *)
(* M * 2^e, M < 2^31, plus a sticky flag for the bits that did not fit,    *)
(* and rounds it once.                                                     *)
(***************************************************************************)
SZero == [s |-> 0, m |-> 0, e |-> 0]

\* the f32 nearest to (-1)^s * (M + a fraction that is non-zero iff sticky) * 2^e
SRound(s, M, e, sticky) ==
    IF M = 0 THEN SZero
    ELSE LET L == IntBitLen(M) IN
         IF L <= F32Prec
         THEN [s |-> s, m |-> M * 2^(F32Prec - L), e |-> e - (F32Prec - L)]
         ELSE LET k    == L - F32Prec
                  q    == M \div 2^k
                  r    == M % 2^k
                  half == 2^(k - 1)
                  up   == r > half \/ (r = half /\ (sticky \/ q % 2 = 1))
                  q1   == IF up THEN q + 1 ELSE q
              IN  IF q1 = 2^F32Prec
                  THEN [s |-> s, m |-> 2^(F32Prec - 1), e |-> e + k + 1]
                  ELSE [s |-> s, m |-> q1, e |-> e + k]

\* `n as f32` for |n| < 2^24, and the f32 literals of the program
F32(n) == SRound(IF n < 0 THEN 1 ELSE 0, IF n < 0 THEN -n ELSE n, 0, FALSE)

SNeg(a) == IF a.m = 0 THEN a ELSE [a EXCEPT !.s = 1 - a.s]
SAbs(a) == [a EXCEPT !.s = 0]

\* -1, 0, 1 as |a| <, =, > |b|
SCmpMag(a, b) ==
    IF a.m = 0 \/ b.m = 0
    THEN (IF a.m = b.m THEN 0 ELSE IF a.m = 0 THEN -1 ELSE 1)
    ELSE IF a.e # b.e THEN (IF a.e < b.e THEN -1 ELSE 1)
    ELSE IF a.m = b.m THEN 0 ELSE IF a.m < b.m THEN -1 ELSE 1

SSign(a) == IF a.m = 0 THEN 0 ELSE IF a.s = 1 THEN -1 ELSE 1

SCmp(a, b) ==
    IF SSign(a) # SSign(b) THEN (IF SSign(a) < SSign(b) THEN -1 ELSE 1)
    ELSE SSign(a) * SCmpMag(a, b)

SLt(a, b) == SCmp(a, b) < 0
SLe(a, b) == SCmp(a, b) <= 0
SGt(a, b) == SCmp(a, b) > 0
SEq(a, b) == SCmp(a, b) = 0

\* f32::max, f32::min (no NaN occurs)
SMax(a, b) == IF SLt(a, b) THEN b ELSE a
SMin(a, b) == IF SLt(b, a) THEN b ELSE a

\* x + y for |x| >= |y|, both non-zero: five guard bits, the bits of y shifted
\* out are kept as the sticky flag
SAddOrdered(x, y) ==
    LET d  == x.e - y.e
        X  == x.m * 32
        Y  == IF d > 30 THEN 0 ELSE (y.m * 32) \div 2^d
        st == IF d > 30 THEN TRUE ELSE (y.m * 32) % 2^d # 0
    IN  IF x.s = y.s THEN SRound(x.s, X + Y, x.e - 5, st)
        ELSE SRound(x.s, X - Y - (IF st THEN 1 ELSE 0), x.e - 5, st)

SAdd(a, b) ==
    IF a.m = 0 THEN b
    ELSE IF b.m = 0 THEN a
    ELSE IF SCmpMag(a, b) >= 0 THEN SAddOrdered(a, b) ELSE SAddOrdered(b, a)

SSub(a, b) == SAdd(a, SNeg(b))

\* the 48-bit product of the mantissas as hi * 2^24 + lo, from 12-bit halves
SMul(a, b) ==
    IF a.m = 0 \/ b.m = 0 THEN SZero
    ELSE LET a1  == a.m \div 4096
             a0  == a.m % 4096
             b1  == b.m \div 4096
             b0  == b.m % 4096
             mid == a1 * b0 + a0 * b1
             low == (mid % 4096) * 4096 + a0 * b0
             hi  == a1 * b1 + mid \div 4096 + low \div 2^24
             lo  == low % 2^24
         IN  SRound((a.s + b.s) % 2, hi * 64 + lo \div 2^18, a.e + b.e + 18,
                    lo % 2^18 # 0)

\* a / b, b # 0: the quotient of the mantissas to 28 fraction bits, seven at a time
SDiv(a, b) ==
    IF a.m = 0 THEN SZero
    ELSE LET q0 == a.m \div b.m
             r0 == a.m % b.m
             q1 == (r0 * 128) \div b.m
             r1 == (r0 * 128) % b.m
             q2 == (r1 * 128) \div b.m
             r2 == (r1 * 128) % b.m
             q3 == (r2 * 128) \div b.m
             r3 == (r2 * 128) % b.m
             q4 == (r3 * 128) \div b.m
             r4 == (r3 * 128) % b.m
         IN  SRound((a.s + b.s) % 2,
                    (((q0 * 128 + q1) * 128 + q2) * 128 + q3) * 128 + q4,
                    a.e - b.e - 28, r4 # 0)

\* Rust's a % b on f32 (fmod): exact, sign of a; for |a / b| < 64
SRem(a, b) ==
    IF SCmpMag(a, b) < 0 THEN a
    ELSE SRound(a.s, (a.m * 2^(a.e - b.e)) % b.m, b.e, FALSE)

\* Rust's `x as u8`: truncates toward zero, saturates
SToU8(a) ==
    IF a.m = 0 \/ a.s = 1 THEN 0
    ELSE IF a.e >= 0 THEN 255
    ELSE IF -a.e >= F32Prec THEN 0
    ELSE LET t == a.m \div 2^(-a.e) IN IF t > 255 THEN 255 ELSE t

(***************************************************************************)
(* Colour model converter.                                                 *)
(***************************************************************************)
\* the hue of a colour whose largest channel is red may come out negative
WrapHueOmitted(hue) == hue

WrapHue(hue) == IF SLt(hue, SZero) THEN SAdd(hue, F32(360)) ELSE hue

\* lines 15-23, from the channels in [0, 1], their maximum and delta
Hue(r_, g_, b_, c_max, delta) ==
    IF SEq(delta, SZero) THEN SZero
    ELSE IF SEq(c_max, r_)
         THEN SMul(F32(60), SRem(SDiv(SSub(g_, b_), delta), F32(6)))
    ELSE IF SEq(c_max, g_)
         THEN SMul(F32(60), SAdd(SDiv(SSub(b_, r_), delta), F32(2)))
    ELSE SMul(F32(60), SAdd(SDiv(SSub(r_, g_), delta), F32(4)))

\* lines 15-30: <<h, s, v>>
HsvOfDelta(r_, g_, b_, c_max, delta) ==
    <<WrapHue(Hue(r_, g_, b_, c_max, delta)),
      IF SEq(c_max, SZero) THEN SZero ELSE SDiv(delta, c_max),
      c_max>>

\* lines 13-30
HsvOfRange(r_, g_, b_, c_max, c_min) ==
    HsvOfDelta(r_, g_, b_, c_max, SSub(c_max, c_min))

\* lines 11-30
HsvOfUnit(r_, g_, b_) ==
    HsvOfRange(r_, g_, b_, SMax(SMax(r_, g_), b_), SMin(SMin(r_, g_), b_))

rgb_to_hsv(r, g, b) ==
    HsvOfUnit(SDiv(F32(r), F32(255)), SDiv(F32(g), F32(255)), SDiv(F32(b), F32(255)))

\* Rust's (lo..hi).contains(&h): lo <= h < hi
InRange(h, lo, hi) == SLe(F32(lo), h) /\ SLt(h, F32(hi))

\* lines 52-56, from the sector's <<r_, g_, b_>>
RgbOfSector(t, m) ==
    <<SToU8(SMul(SAdd(t[1], m), F32(255))),
      SToU8(SMul(SAdd(t[2], m), F32(255))),
      SToU8(SMul(SAdd(t[3], m), F32(255)))>>

\* lines 38-56
RgbOfChroma(h, c, x, m) ==
    RgbOfSector(IF InRange(h, 0, 60) THEN <<c, x, SZero>>
                ELSE IF InRange(h, 60, 120) THEN <<x, c, SZero>>
                ELSE IF InRange(h, 120, 180) THEN <<SZero, c, x>>
                ELSE IF InRange(h, 180, 240) THEN <<SZero, x, c>>
                ELSE IF InRange(h, 240, 300) THEN <<x, SZero, c>>
                ELSE <<c, SZero, x>>,
                m)

\* lines 35-56
RgbOfValue(h, v, c) ==
    RgbOfChroma(h, c,
                SMul(c, SSub(F32(1), SAbs(SSub(SRem(SDiv(h, F32(60)), F32(2)), F32(1))))),
                SSub(v, c))

hsv_to_rgb(h, s, v) == RgbOfValue(h, v, SMul(v, s))

(***************************************************************************)
(* Images.  A DynamicImage is a record [format, width, height, data]: its  *)
(* variant ("Rgb8", "Luma8" or "Rgba8"), its dimensions, and its pixels    *)
(* in row-major order, each a tuple of 3, 1 or 4 samples.                  *)
(***************************************************************************)
Formats == {"Rgb8", "Luma8", "Rgba8"}

DynamicImage(format, width, height, data) ==
    [format |-> format, width |-> width, height |-> height, data |-> data]

\* the image crate's luma of an RGB pixel
rgb_to_luma(p) == (2126 * p[1] + 7152 * p[2] + 722 * p[3]) \div 10000

\* DynamicImage::to_rgb8: the pixels as RGB; gray is repeated, alpha is dropped
to_rgb8(img) ==
    [i \in 1..Len(img.data) |->
        IF img.format = "Luma8"
        THEN <<img.data[i][1], img.data[i][1], img.data[i][1]>>
        ELSE <<img.data[i][1], img.data[i][2], img.data[i][3]>>]

\* DynamicImage::to_luma8: the pixels as gray; alpha is dropped
to_luma8(img) ==
    [i \in 1..Len(img.data) |->
        IF img.format = "Luma8" THEN img.data[i] ELSE <<rgb_to_luma(img.data[i])>>]

\* DynamicImage::to_rgba8: the pixels as RGBA; a missing alpha is 255
to_rgba8(img) ==
    [i \in 1..Len(img.data) |->
        IF img.format = "Luma8"
        THEN <<img.data[i][1], img.data[i][1], img.data[i][1], 255>>
        ELSE IF img.format = "Rgb8"
        THEN <<img.data[i][1], img.data[i][2], img.data[i][3], 255>>
        ELSE img.data[i]]

(***************************************************************************)
(* The transforms.                                                         *)
(***************************************************************************)

\* min_v and max_v after the first loop of apply_linear_contrast: f32::min and
\* f32::max folded over its start value and the Value of every pixel
Least(S) == CHOOSE x \in S : \A y \in S : SLe(x, y)
Greatest(S) == CHOOSE x \in S : \A y \in S : SLe(y, x)

\* the second loop of apply_linear_contrast, and its return
StretchValue(img, hsvs, min_v, max_v) ==
    DynamicImage("Rgb8", img.width, img.height,
        [i \in 1..Len(hsvs) |->
            hsv_to_rgb(hsvs[i][1], hsvs[i][2],
                       IF SGt(max_v, min_v)
                       THEN SDiv(SSub(hsvs[i][3], min_v), SSub(max_v, min_v))
                       ELSE hsvs[i][3])])

\* the first loop of apply_linear_contrast
ValueRange(img, hsvs) ==
    StretchValue(img, hsvs,
                 Least({F32(1)} \cup {hsvs[i][3] : i \in 1..Len(hsvs)}),
                 Greatest({F32(0)} \cup {hsvs[i][3] : i \in 1..Len(hsvs)}))

\* rgb_to_hsv of every pixel, which both loops compute
HsvOfPixels(px) == [i \in 1..Len(px) |-> rgb_to_hsv(px[i][1], px[i][2], px[i][3])]

apply_linear_contrast(img) == ValueRange(img, HsvOfPixels(to_rgb8(img)))

\* `>=` where the code has `>`
apply_manual_threshold_Ge(img, t) ==
    LET gray_image == to_luma8(img)
    IN  DynamicImage("Luma8", img.width, img.height,
            [i \in 1..Len(gray_image) |->
                IF gray_image[i][1] >= t THEN <<255>> ELSE <<0>>])

apply_manual_threshold(img, t) ==
    LET gray_image == to_luma8(img)
    IN  DynamicImage("Luma8", img.width, img.height,
            [i \in 1..Len(gray_image) |->
                IF gray_image[i][1] > t THEN <<255>> ELSE <<0>>])

apply_inversion(img) ==
    LET px == to_rgb8(img)
    IN  DynamicImage("Rgb8", img.width, img.height,
            [i \in 1..Len(px) |-> <<255 - px[i][1], 255 - px[i][2], 255 - px[i][3]>>])

\* i16 addition: the sum when it fits, else what the build makes of it:
\* nothing (a panic) with overflow checks, the wrapped sum without
AddI16(a, b, overflow_checks) ==
    LET sum == a + b IN
    IF -32768 <= sum /\ sum <= 32767 THEN [panic |-> FALSE, sum |-> sum]
    ELSE IF overflow_checks THEN [panic |-> TRUE, sum |-> 0]
    ELSE [panic |-> FALSE, sum |-> ((sum + 32768) % 65536) - 32768]

\* i16::clamp(0, 255) as u8
ClampU8(x) == IF x < 0 THEN 0 ELSE IF x > 255 THEN 255 ELSE x

\* [panicked, image]: image is meaningful only when the call did not panic
apply_brightness(img, v, overflow_checks) ==
    LET px   == to_rgb8(img)
        sums == [i \in 1..Len(px) |->
                    [c \in 1..3 |-> AddI16(px[i][c], v, overflow_checks)]]
    IN  [panicked |-> \E i \in 1..Len(px) : \E c \in 1..3 : sums[i][c].panic,
         image    |-> DynamicImage("Rgb8", img.width, img.height,
                        [i \in 1..Len(px) |->
                            [c \in 1..3 |-> ClampU8(sums[i][c].sum)]])]

(***************************************************************************)
(* Otsu's threshold.  histogram, total_pixels and the f64 accumulators     *)
(* sum, sum_b, w_b and w_f hold integers far below 2^53, which f64         *)
(* represents and adds exactly: they are kept as integers here.  The       *)
(* means and the variance are rounded f64 values.                          *)
(***************************************************************************)
histogram_of(pixels) ==
    [p \in 0..255 |-> Cardinality({i \in 1..Len(pixels) : pixels[i][1] = p})]

\* sum after the bins lo..hi have been added
RECURSIVE HistogramSum(_, _, _)
HistogramSum(histogram, lo, hi) ==
    IF lo = hi THEN lo * histogram[lo]
    ELSE HistogramSum(histogram, lo, (lo + hi) \div 2)
         + HistogramSum(histogram, (lo + hi) \div 2 + 1, hi)

\* a search that starts from the middle of the scale
OtsuLocals_Mid ==
    [w_b |-> 0, sum_b |-> 0, max_variance |-> DZero, optimal_threshold |-> 128,
     broke |-> FALSE, evaluated |-> 0, divisors |-> {}]

\* the locals of the search before its loop; evaluated and divisors observe the
\* loop: the number of candidates whose variance was computed, the divisors used
OtsuLocals ==
    [w_b |-> 0, sum_b |-> 0, max_variance |-> DZero, optimal_threshold |-> 0,
     broke |-> FALSE, evaluated |-> 0, divisors |-> {}]

\* a later candidate of equal variance replaces the kept one
Better_OrEqual(variance, max_variance) == DCmp(variance, max_variance) >= 0

\* `variance > max_variance`
Better(variance, max_variance) == DGt(variance, max_variance)

\* line 139
Variance(w_b, w_f, diff) == DMul(DMul(F64(w_b), F64(w_f)), DMul(diff, diff))

\* lines 141-144, and the locals as the pass leaves them
OtsuCandidate(st, t, w_b, sum_b, divisors, variance) ==
    IF Better(variance, st.max_variance)
    THEN [w_b |-> w_b, sum_b |-> sum_b, max_variance |-> variance,
          optimal_threshold |-> t, broke |-> FALSE,
          evaluated |-> st.evaluated + 1, divisors |-> st.divisors \cup divisors]
    ELSE [w_b |-> w_b, sum_b |-> sum_b, max_variance |-> st.max_variance,
          optimal_threshold |-> st.optimal_threshold, broke |-> FALSE,
          evaluated |-> st.evaluated + 1, divisors |-> st.divisors \cup divisors]

\* one pass through the body of `for t in 0..256`
OtsuBody(st, t, histogram, total_pixels, sum) ==
    LET w_b   == st.w_b + histogram[t]
        w_f   == total_pixels - w_b
        sum_b == st.sum_b + t * histogram[t]
    IN  IF w_b = 0 THEN [st EXCEPT !.w_b = w_b]
        ELSE IF w_f = 0 THEN [st EXCEPT !.w_b = w_b, !.broke = TRUE]
        ELSE OtsuCandidate(st, t, w_b, sum_b, {w_b, w_f},
                 Variance(w_b, w_f,
                          DSub(DDivInt(sum_b, w_b), DDivInt(sum - sum_b, w_f))))

\* the passes of `for t in 0..256` for t = lo..hi in order, until the break
\* (OtsuLoop), and those of them that follow passes that left st (OtsuRest)
RECURSIVE OtsuRest(_, _, _, _, _, _)
RECURSIVE OtsuLoop(_, _, _, _, _, _)
OtsuLoop(st, lo, hi, histogram, total_pixels, sum) ==
    IF lo = hi THEN OtsuBody(st, lo, histogram, total_pixels, sum)
    ELSE OtsuRest(OtsuLoop(st, lo, (lo + hi) \div 2, histogram, total_pixels, sum),
                  (lo + hi) \div 2 + 1, hi, histogram, total_pixels, sum)

OtsuRest(st, lo, hi, histogram, total_pixels, sum) ==
    IF st.broke THEN st ELSE OtsuLoop(st, lo, hi, histogram, total_pixels, sum)

\* lines 115-145 on a histogram
OtsuOnHistogram(histogram, total_pixels) ==
    OtsuLoop(OtsuLocals, 0, 255, histogram, total_pixels,
             HistogramSum(histogram, 0, 255))

\* apply_otsu_threshold up to its last line: whether the search ran, and the
\* locals it ended with
OtsuSearch(img) ==
    IF Len(img.data) = 0 THEN [searched |-> FALSE, locals |-> OtsuLocals]
    ELSE [searched |-> TRUE,
          locals   |-> OtsuOnHistogram(histogram_of(to_luma8(img)), Len(img.data))]

\* the search's threshold applied even when no search ran
OtsuReturn_Always(img, search) ==
    apply_manual_threshold(img, search.locals.optimal_threshold)

OtsuReturn(img, search) ==
    IF ~search.searched THEN img
    ELSE apply_manual_threshold(img, search.locals.optimal_threshold)

apply_otsu_threshold(img) == OtsuReturn(img, OtsuSearch(img))

(***************************************************************************)
(* What each specification leaves at rest.                                 *)
(***************************************************************************)
NoSearch == [searched |-> FALSE, locals |-> OtsuLocals]

AppAtRest ==
    /\ original_image = None
    /\ processed_image = None
    /\ original_texture = None
    /\ processed_texture = None
    /\ manual_threshold_value = 128
    /\ manual_brightness_value = 0

CallAtRest ==
    /\ image = DynamicImage("Rgb8", 0, 0, <<>>)
    /\ called = "none"
    /\ threshold = 0
    /\ value = 0
    /\ result = None
    /\ panicked = FALSE
    /\ otsu = NoSearch

ConvAtRest ==
    /\ rgb_in = <<0, 0, 0>>
    /\ hsv = <<>>
    /\ rgb_out = <<>>
    /\ conv_pc = "rgb"

(***************************************************************************)
(* The converter applied to sampled colours.                               *)
(***************************************************************************)
MaxEdge == 4
ChannelSamples == (0..MaxEdge) \cup ((255 - MaxEdge)..255) \cup {64, 127, 128, 191}

InitConv ==
    /\ rgb_in \in ChannelSamples \X ChannelSamples \X ChannelSamples
    /\ hsv = <<>>
    /\ rgb_out = <<>>
    /\ conv_pc = "rgb"
    /\ AppAtRest
    /\ CallAtRest

RgbToHsv ==
    /\ conv_pc = "rgb"
    /\ hsv' = rgb_to_hsv(rgb_in[1], rgb_in[2], rgb_in[3])
    /\ conv_pc' = "hsv"
    /\ UNCHANGED <<rgb_in, rgb_out, appVars, callVars>>

HsvToRgb ==
    /\ conv_pc = "hsv"
    /\ rgb_out' = hsv_to_rgb(hsv[1], hsv[2], hsv[3])
    /\ conv_pc' = "done"
    /\ UNCHANGED <<rgb_in, hsv, appVars, callVars>>

NextConv == RgbToHsv \/ HsvToRgb

SpecConv == InitConv /\ [][NextConv]_vars

(***************************************************************************)
(* The transforms applied to sampled images: one call of one transform     *)
(* per behaviour, and a second inversion of an inverted image.             *)
(***************************************************************************)
MaxWidth == 2
MaxHeight == 2

\* the two colours of a sampled image, per format
GrayPairs == {<<<<0>>, <<0>>>>, <<<<100>>, <<100>>>>, <<<<255>>, <<255>>>>,
              <<<<127>>, <<128>>>>, <<<<128>>, <<127>>>>,
              <<<<50>>, <<200>>>>, <<<<200>>, <<50>>>>, <<<<5>>, <<250>>>>}
RgbPairs == {<<<<0, 1, 3>>, <<0, 1, 3>>>>, <<<<250, 5, 128>>, <<250, 5, 128>>>>,
             <<<<127, 128, 129>>, <<127, 128, 129>>>>, <<<<0, 0, 0>>, <<0, 0, 0>>>>,
             <<<<255, 255, 255>>, <<255, 255, 255>>>>,
             <<<<0, 1, 3>>, <<2, 0, 1>>>>, <<<<250, 5, 128>>, <<240, 10, 120>>>>}
RgbaPairs == {<<<<0, 1, 3, 128>>, <<0, 1, 3, 128>>>>,
              <<<<10, 20, 30, 0>>, <<250, 5, 128, 255>>>>,
              <<<<250, 5, 128, 255>>, <<240, 10, 120, 7>>>>}

Pairs(format) ==
    IF format = "Luma8" THEN GrayPairs
    ELSE IF format = "Rgb8" THEN RgbPairs
    ELSE RgbaPairs

\* n pixels, a and b in turn
Alternating(n, a, b) == [i \in 1..n |-> IF i % 2 = 1 THEN a ELSE b]

\* n gray pixels: a first, c last, b between
Ends(n, a, b, c) == [i \in 1..n |-> IF i = 1 THEN <<a>> ELSE IF i = n THEN <<c>> ELSE <<b>>]

Inputs ==
    UNION {{DynamicImage(f, w, h, Alternating(w * h, p[1], p[2])) : p \in Pairs(f)} :
            <<f, w, h>> \in Formats \X (0..MaxWidth) \X (0..MaxHeight)}
    \cup {DynamicImage("Luma8", w, h, Ends(w * h, a, b, c)) :
            w \in 1..MaxWidth, h \in 1..MaxHeight, a \in 0..2, b \in 0..2, c \in 0..2}

ThresholdSamples == {0, 50, 127, 200, 255}
BrightnessSamples == {-32768, -255, -50, 0, 50, 255, 32767}

InitCall ==
    /\ image \in Inputs
    /\ called = "none"
    /\ threshold = 0
    /\ value = 0
    /\ result = None
    /\ panicked = FALSE
    /\ otsu = NoSearch
    /\ AppAtRest
    /\ ConvAtRest

CallLinearContrast ==
    /\ called = "none"
    /\ called' = "apply_linear_contrast"
    /\ result' = Some(apply_linear_contrast(image))
    /\ UNCHANGED <<image, threshold, value, panicked, otsu, appVars, convVars>>

CallManualThreshold ==
    /\ called = "none"
    /\ \E t \in ThresholdSamples :
        /\ threshold' = t
        /\ result' = Some(apply_manual_threshold(image, t))
    /\ called' = "apply_manual_threshold"
    /\ UNCHANGED <<image, value, panicked, otsu, appVars, convVars>>

CallOtsuThreshold ==
    /\ called = "none"
    /\ called' = "apply_otsu_threshold"
    /\ \E search \in {OtsuSearch(image)} :
        /\ otsu' = search
        /\ result' = Some(OtsuReturn(image, search))
    /\ UNCHANGED <<image, threshold, value, panicked, appVars, convVars>>

CallInversion ==
    /\ called = "none"
    /\ called' = "apply_inversion"
    /\ result' = Some(apply_inversion(image))
    /\ UNCHANGED <<image, threshold, value, panicked, otsu, appVars, convVars>>

\* the inverted image inverted again
CallInversionAgain ==
    /\ called = "apply_inversion"
    /\ called' = "apply_inversion twice"
    /\ result' = Some(apply_inversion(result[1]))
    /\ UNCHANGED <<image, threshold, value, panicked, otsu, appVars, convVars>>

CallBrightness ==
    /\ called = "none"
    /\ \E v \in BrightnessSamples, overflow_checks \in BOOLEAN :
        \E r \in {apply_brightness(image, v, overflow_checks)} :
            /\ value' = v
            /\ panicked' = r.panicked
            /\ result' = IF r.panicked THEN None ELSE Some(r.image)
    /\ called' = "apply_brightness"
    /\ UNCHANGED <<image, threshold, otsu, appVars, convVars>>

NextCall ==
    \/ CallLinearContrast
    \/ CallManualThreshold
    \/ CallOtsuThreshold
    \/ CallInversion
    \/ CallInversionAgain
    \/ CallBrightness

SpecCall == InitCall /\ [][NextCall]_vars

(***************************************************************************)
(* ImageApp.  One action is one call of update(), a frame, in which at     *)
(* most one widget is used.  A frame runs top to bottom: the load, save    *)
(* and reset buttons, then the two image panels, which create a missing    *)
(* texture, then the transform buttons and sliders.                        *)
(***************************************************************************)
image_to_texture(img, name) ==
    [name |-> name, size |-> <<img.width, img.height>>, pixels |-> to_rgba8(img)]

\* lines 240-264: Option::get_or_insert_with on the texture of a present image
Rendered(img, texture, name) ==
    IF img # None /\ texture = None THEN Some(image_to_texture(img[1], name))
    ELSE texture

\* the images a load yields here
LoadableImages ==
    {DynamicImage("Rgb8", 2, 1, <<<<250, 5, 128>>, <<240, 10, 120>>>>),
     DynamicImage("Rgb8", 1, 1, <<<<0, 1, 3>>>>),
     DynamicImage("Luma8", 2, 2, <<<<0>>, <<1>>, <<1>>, <<2>>>>),
     DynamicImage("Rgba8", 1, 2, <<<<10, 20, 30, 0>>, <<12, 22, 33, 7>>>>),
     DynamicImage("Rgb8", 0, 0, <<>>)}

\* the slider positions tried, all within the sliders' ranges
ThresholdPositions == {t \in ThresholdSamples \cup {128} : 0 <= t /\ t <= 255}
BrightnessPositions == {v \in BrightnessSamples : -255 <= v /\ v <= 255}

Init ==
    /\ AppAtRest
    /\ CallAtRest
    /\ ConvAtRest

\* a frame in which nothing is clicked, or the file dialog is cancelled, or the
\* file does not decode, or the result is saved
Frame ==
    /\ original_texture' = Rendered(original_image, original_texture, "original")
    /\ processed_texture' = Rendered(processed_image, processed_texture, "processed")
    /\ UNCHANGED <<original_image, processed_image, manual_threshold_value,
                   manual_brightness_value, callVars, convVars>>

Load ==
    \E img \in LoadableImages :
        /\ original_image' = Some(img)
        /\ processed_image' = Some(img)
        /\ original_texture' = Rendered(Some(img), None, "original")
        /\ processed_texture' = Rendered(Some(img), None, "processed")
        /\ UNCHANGED <<manual_threshold_value, manual_brightness_value,
                       callVars, convVars>>

Reset ==
    /\ processed_image # None
    /\ original_image # None
    /\ processed_image' = original_image
    /\ original_texture' = Rendered(original_image, original_texture, "original")
    /\ processed_texture' = Rendered(original_image, None, "processed")
    /\ UNCHANGED <<original_image, manual_threshold_value, manual_brightness_value,
                   callVars, convVars>>

\* a frame in which a transform button is clicked and its transform returns r
Transformed(r) ==
    /\ processed_image' = Some(r)
    /\ processed_texture' = None
    /\ original_texture' = Rendered(original_image, original_texture, "original")
    /\ UNCHANGED <<original_image, manual_threshold_value, manual_brightness_value,
                   callVars, convVars>>

ClickLinearContrast ==
    /\ original_image # None
    /\ Transformed(apply_linear_contrast(original_image[1]))

ClickOtsuThreshold ==
    /\ original_image # None
    /\ Transformed(apply_otsu_threshold(original_image[1]))

\* the threshold applied to the result shown, not to the original
ClickManualThreshold_OnResult ==
    /\ original_image # None
    /\ Transformed(apply_manual_threshold(processed_image[1], manual_threshold_value))

ClickManualThreshold ==
    /\ original_image # None
    /\ Transformed(apply_manual_threshold(original_image[1], manual_threshold_value))

ClickInversion ==
    /\ original_image # None
    /\ Transformed(apply_inversion(original_image[1]))

\* a panic ends the program: there is no next frame
ClickBrightness ==
    /\ original_image # None
    /\ \E overflow_checks \in BOOLEAN :
        \E r \in {apply_brightness(original_image[1], manual_brightness_value,
                                   overflow_checks)} :
            /\ ~r.panicked
            /\ Transformed(r.image)

DragThreshold ==
    /\ original_image # None
    /\ \E t \in ThresholdPositions : manual_threshold_value' = t
    /\ original_texture' = Rendered(original_image, original_texture, "original")
    /\ processed_texture' = Rendered(processed_image, processed_texture, "processed")
    /\ UNCHANGED <<original_image, processed_image, manual_brightness_value,
                   callVars, convVars>>

DragBrightness ==
    /\ original_image # None
    /\ \E v \in BrightnessPositions : manual_brightness_value' = v
    /\ original_texture' = Rendered(original_image, original_texture, "original")
    /\ processed_texture' = Rendered(processed_image, processed_texture, "processed")
    /\ UNCHANGED <<original_image, processed_image, manual_threshold_value,
                   callVars, convVars>>

Next ==
    \/ Frame
    \/ Load
    \/ Reset
    \/ ClickLinearContrast
    \/ ClickOtsuThreshold
    \/ ClickManualThreshold
    \/ ClickInversion
    \/ ClickBrightness
    \/ DragThreshold
    \/ DragBrightness

Spec == Init /\ [][Next]_vars

(***************************************************************************)
(* Properties.                                                             *)
(***************************************************************************)
Abs(x) == IF x < 0 THEN -x ELSE x

ZeroArea(img) == img.width = 0 \/ img.height = 0

SameSize(a, b) ==
    /\ a.width = b.width
    /\ a.height = b.height
    /\ Len(a.data) = Len(b.data)

\* C1: a colour taken to HSV and back differs from itself by at most 1 in each
\* channel.
C1_RoundTripWithinOne ==
    conv_pc = "done" => \A i \in 1..3 : Abs(rgb_out[i] - rgb_in[i]) <= 1

\* C1, its case: a colour has gone there and back and is not what it was.
C1_RoundTripOffByOne ==
    /\ conv_pc = "done"
    /\ rgb_out # rgb_in

\* C2 as stated: an image inverted twice is the image itself, format, size and
\* every sample (alpha too), whatever its format.
C2_InversionInvolutive ==
    called = "apply_inversion twice" => result = Some(image)

\* C3 as stated: for every i16 delta, brightness returns, in every channel,
\* clamp(v + delta, 0, 255) of the integer sum, and the addition does not overflow.
C3_BrightnessSaturates ==
    called = "apply_brightness" =>
        /\ ~panicked
        /\ result # None
        /\ \A i \in 1..Len(image.data) : \A c \in 1..3 :
              result[1].data[i][c] = ClampU8(to_rgb8(image)[i][c] + value)

\* C4: the manual threshold returns a single-channel image of the size of its
\* input whose every pixel is 255 where the input's intensity is greater than
\* the threshold and 0 where it is not.
C4_ManualThresholdStrict ==
    called = "apply_manual_threshold" =>
        /\ result[1].format = "Luma8"
        /\ SameSize(result[1], image)
        /\ \A i \in 1..Len(image.data) :
              result[1].data[i] =
                  IF to_luma8(image)[i][1] > threshold THEN <<255>> ELSE <<0>>

\* C4, its case: thresholded at 127, a pixel of intensity 127 came out 0 and one
\* of intensity 128 came out 255.
C4_BoundaryExcluded ==
    /\ called = "apply_manual_threshold"
    /\ threshold = 127
    /\ image.format = "Luma8"
    /\ \E i, j \in 1..Len(image.data) :
          /\ image.data[i] = <<127>> /\ result[1].data[i] = <<0>>
          /\ image.data[j] = <<128>> /\ result[1].data[j] = <<255>>

\* a gray image, half of its pixels 50 and half 200
Bimodal(img) ==
    /\ img.format = "Luma8"
    /\ Len(img.data) > 0
    /\ \A i \in 1..Len(img.data) : img.data[i] \in {<<50>>, <<200>>}
    /\ Cardinality({i \in 1..Len(img.data) : img.data[i] = <<50>>})
         = Cardinality({i \in 1..Len(img.data) : img.data[i] = <<200>>})

\* every 50 has become 0 and every 200 has become 255
Partitioned ==
    \A i \in 1..Len(image.data) :
        result[1].data[i] = IF image.data[i] = <<50>> THEN <<0>> ELSE <<255>>

\* C5, amended: on an image half 50 and half 200 the Otsu search selects 50, the
\* lower intensity itself (50 <= t < 200), and thresholding at it takes every 50
\* to 0 and every 200 to 255.
C5_BimodalSelectsLowerMode ==
    (called = "apply_otsu_threshold" /\ Bimodal(image)) =>
        /\ otsu.searched
        /\ otsu.locals.optimal_threshold = 50
        /\ Partitioned

\* C5 as stated: the threshold selected is strictly between 50 and 200.
C5_BimodalStrictlyBetween ==
    (called = "apply_otsu_threshold" /\ Bimodal(image)) =>
        /\ 50 < otsu.locals.optimal_threshold
        /\ otsu.locals.optimal_threshold < 200
        /\ Partitioned

\* C5, its case: the search has run on such an image of more than two pixels and
\* has weighed every split from 50 to 199.
C5_BimodalSearched ==
    /\ called = "apply_otsu_threshold"
    /\ Bimodal(image)
    /\ Len(image.data) > 2
    /\ otsu.locals.evaluated = 150

\* the number of pixels of intensity at most t, and their sum
RECURSIVE WeightUpTo(_, _, _)
WeightUpTo(px, n, t) ==
    IF n = 0 THEN 0
    ELSE WeightUpTo(px, n - 1, t) + (IF px[n][1] <= t THEN 1 ELSE 0)

RECURSIVE SumUpTo(_, _, _)
SumUpTo(px, n, t) ==
    IF n = 0 THEN 0
    ELSE SumUpTo(px, n - 1, t) + (IF px[n][1] <= t THEN px[n][1] ELSE 0)

\* the splits with pixels on both sides
Candidates(px) ==
    {t \in 0..255 : WeightUpTo(px, Len(px), t) > 0
                    /\ WeightUpTo(px, Len(px), t) < Len(px)}

\* The between-class variance of the split at t is exactly
\* Cross(t)^2 / (N^2 * Den(t)), N the number of pixels.
Cross(px, t) ==
    SumUpTo(px, Len(px), t) * Len(px) - SumUpTo(px, Len(px), 255) * WeightUpTo(px, Len(px), t)

Den(px, t) == WeightUpTo(px, Len(px), t) * (Len(px) - WeightUpTo(px, Len(px), t))

\* -1, 0, 1 as the exact variance at t1 is less than, equal to, greater than
\* that at t2
ExactCmp(px, t1, t2) ==
    BCmp(BMulSmall(BFromInt(Cross(px, t1) * Cross(px, t1)), Den(px, t2)),
         BMulSmall(BFromInt(Cross(px, t2) * Cross(px, t2)), Den(px, t1)))

SmallestMaximiser(px, t) ==
    /\ t \in Candidates(px)
    /\ \A u \in Candidates(px) :
          /\ ExactCmp(px, u, t) <= 0
          /\ u < t => ExactCmp(px, u, t) < 0

\* C6 as stated: the threshold chosen is the smallest split that attains the
\* maximum of the between-class variance over the splits with pixels on both
\* sides.
C6_SmallestMaximiser ==
    (called = "apply_otsu_threshold" /\ otsu.searched
        /\ Candidates(to_luma8(image)) # {}) =>
        SmallestMaximiser(to_luma8(image), otsu.locals.optimal_threshold)

\* a non-empty image of one intensity
Uniform(img) ==
    /\ Len(img.data) > 0
    /\ \A i \in 1..Len(img.data) : to_luma8(img)[i] = to_luma8(img)[1]

\* C7: on a non-empty image of one intensity the search weighs no split, divides
\* by nothing, ends with optimal_threshold = 0, and the image returned is the
\* input thresholded at 0.
C7_UniformImage ==
    (called = "apply_otsu_threshold" /\ Uniform(image)) =>
        /\ otsu.searched
        /\ otsu.locals.evaluated = 0
        /\ otsu.locals.divisors = {}
        /\ otsu.locals.optimal_threshold = 0
        /\ result[1].format = "Luma8"
        /\ SameSize(result[1], image)
        /\ \A i \in 1..Len(image.data) :
              result[1].data[i] = IF to_luma8(image)[i][1] > 0 THEN <<255>> ELSE <<0>>

\* C7, its case: the search has run on an image all of intensity 100, which came
\* out white.
C7_UniformHundred ==
    /\ called = "apply_otsu_threshold"
    /\ Uniform(image)
    /\ image.data[1] = <<100>>
    /\ otsu.locals.broke
    /\ result[1].data[1] = <<255>>

\* C8 as stated: linear contrast returns an image of a single RGB colour
\* unchanged.
C8_FlatImageUnchanged ==
    (called = "apply_linear_contrast" /\ image.format = "Rgb8"
        /\ Len(image.data) > 0
        /\ \A i \in 1..Len(image.data) : image.data[i] = image.data[1]) =>
        result = Some(image)

\* the format a transform declares for what it returns on an image of no pixels
ZeroAreaFormat(transform, format) ==
    IF transform = "apply_otsu_threshold" THEN format
    ELSE IF transform = "apply_manual_threshold" THEN "Luma8"
    ELSE "Rgb8"

OneTransformOf(img) ==
    {apply_linear_contrast(img), apply_otsu_threshold(img), apply_inversion(img)}
    \cup {apply_manual_threshold(img, t) : t \in ThresholdPositions}
    \cup {apply_brightness(img, v, FALSE).image : v \in BrightnessPositions}

C10_State ==
    /\ (processed_image = None) <=> (original_image = None)
    /\ original_image # None =>
          processed_image[1] \in {original_image[1]} \cup OneTransformOf(original_image[1])
    /\ processed_texture # None =>
          processed_texture = Some(image_to_texture(processed_image[1], "processed"))

C10_Step ==
    /\ original_image' # original_image =>
          /\ original_image' \in {Some(img) : img \in LoadableImages}
          /\ processed_image' = original_image'
    /\ processed_image' # processed_image =>
          processed_texture' \in
              {None, Some(image_to_texture(processed_image'[1], "processed"))}

\* C10: processed_image is present exactly when original_image is, and is the
\* original or what one transform makes of the original; only a load changes
\* original_image; and a texture kept for the result is the texture of the
\* result shown, never that of a replaced one.
C10_OneTransformOfOriginal == [](C10_State) /\ [][C10_Step]_vars

\* C10, its case: a gray image was loaded and inverted, and a later frame has
\* made the texture of the result.
C10_InvertedShown ==
    /\ original_image # None
    /\ processed_image = Some(apply_inversion(original_image[1]))
    /\ processed_image # original_image
    /\ processed_texture # None
    /\ original_image[1].format = "Luma8"

====
